---- MODULE Spec2Model ----
(***************************************************************************)
(* componentTestSuite (react-component-test-suite): registration of one    *)
(* describe block with one test per entry of the test list, and the        *)
(* execution of the registered test callbacks                              *)
(* (beforeRender -> render -> afterRender).                                *)
(*                                                                         *)
(* Optional values (a key that may be missing, a value that may be         *)
(* undefined) are sequences of length 0 or 1.  A hook is 0 (undefined) or  *)
(* the positive identity of a function.                                    *)
(***************************************************************************)
EXTENDS Integers, Sequences, FiniteSets, TLC

\* Longest test list passed to componentTestSuite.
MaxTests == 2

\* Most describe, it and test calls made while spyOnVitestCallers is in place,
\* and most tests of the host run under it.
MaxSpyCalls == 4
MaxHostTests == 2

\* `undefined` for an optional function (beforeRender, afterRender, insideSuite).
NoHook == 0

-----------------------------------------------------------------------------
(* Components: React elements of function components.                      *)

Element(typeName, typeDisplayName, displayName, props) ==
    [type |-> [name |-> typeName, displayName |-> typeDisplayName],
     displayName |-> displayName, props |-> props]

\* const TestComponent = () => <div/>, rendered as <TestComponent />
TestComponent == Element("TestComponent", <<>>, <<>>, 1)
\* <TestComponent customProp="2" />: same type, another element
TestComponentProps2 == Element("TestComponent", <<>>, <<>>, 2)
\* an anonymous (memo) type whose displayName was set to "TestComponent"
MemoNamedComponent == Element("", <<"TestComponent">>, <<>>, 1)
\* const DifferentTestComponent = () => <div/>, here with a displayName that
\* its name takes precedence over
DifferentTestComponent == Element("DifferentTestComponent", <<"TestComponent">>, <<>>, 1)
\* an anonymous (memo) type without displayName
AnonymousComponent == Element("", <<>>, <<"">>, 1)
\* an anonymous type, displayName on the element itself
ElementNamedComponent == Element("", <<"">>, <<"DifferentTestComponent">>, 1)

\* a || b on an optional string: a when truthy (present and non-empty), else b
Truthy(opt) == Len(opt) > 0 /\ opt[1] # ""

\* the message of the Error thrown by getComponentName
NoNameMessage ==
    "Component has no name. May be a React.MemoExoticComponent-- if so, set displayName on the component."

\* The three names looked up from the element to its type.
ResolvedNameOwnFirst(C) ==
    IF Truthy(C.displayName) THEN C.displayName[1]
    ELSE IF Truthy(C.type.displayName) THEN C.type.displayName[1]
    ELSE C.type.name

\* The local `name` of getComponentName: type.name || type.displayName || displayName.
\* "" stands for every falsy result.
ResolvedName(C) ==
    IF C.type.name # "" THEN C.type.name
    ELSE IF Truthy(C.type.displayName) THEN C.type.displayName[1]
    ELSE IF Truthy(C.displayName) THEN C.displayName[1]
    ELSE ""

\* getComponentName without its `if (!name) throw`.
getComponentNameUnchecked(C) ==
    [threw |-> FALSE, value |-> ResolvedName(C), message |-> ""]

\* getComponentName: the name, or the Error it throws.
getComponentName(C) ==
    LET name == ResolvedName(C) IN
    IF name = "" THEN [threw |-> TRUE, value |-> "", message |-> NoNameMessage]
    ELSE [threw |-> FALSE, value |-> name, message |-> ""]

-----------------------------------------------------------------------------
(* Test lists.                                                             *)

\* One entry of the test list.
TestCase(suffix, before, after, comp) ==
    [testTitleSuffix |-> suffix, beforeRender |-> before,
     afterRender |-> after, Component |-> comp]

\* the default entry `{}` of `[{}]`
DefaultTest == TestCase(<<>>, NoHook, NoHook, <<>>)

\* The list used as given, without the default entry.
EffectiveTestsNoDefault(list) == list

\* The effective list: testsArg?.length ? testsArg : [{}]
EffectiveTests(list) == IF Len(list) # 0 THEN list ELSE <<DefaultTest>>

\* 'Component' in maybeComponent ? maybeComponent.Component : Component
ThisTestComponentOf(t, primary) ==
    IF Len(t.Component) > 0 THEN t.Component[1] ELSE primary

\* the message of the Error thrown on a component of another type
MismatchMessage(componentName) ==
    "all tests must be of same component type (" \o componentName \o ")"

\* The title with the suffix appended whether or not there is one.
TitleOfAlwaysSuffixed(testTitle, t) ==
    testTitle \o " - " \o
        (IF Len(t.testTitleSuffix) > 0 THEN t.testTitleSuffix[1] ELSE "undefined")

\* testTitle + (testTitleSuffix ? ` - ${testTitleSuffix}` : '')
TitleOf(testTitle, t) ==
    testTitle \o (IF Truthy(t.testTitleSuffix) THEN " - " \o t.testTitleSuffix[1] ELSE "")

\* <Wrapper>{ThisTestComponent}</Wrapper>; Wrapper defaults to React.Fragment
WrappedElement(Wrapper, child) == [type |-> Wrapper, children |-> <<child>>]

-----------------------------------------------------------------------------
(* State.                                                                  *)

VARIABLES
    Component,      \* argument: the primary component
    options,        \* argument: suiteFn, insideSuite, testTitle, Wrapper
    testsArg,       \* argument: the rest parameter, the test list
    framework,      \* how the host's test() treats a callback: "deferred" | "immediate"
    pc,             \* position of the componentTestSuite call
    componentName,  \* local of componentTestSuite
    tests,          \* local of componentTestSuite: the effective list
    idx,            \* position of the for-of loop in tests
    calls,          \* calls made to suiteFn, insideSuite and test, in order
    registered,     \* the callbacks handed to test(), in order
    exec,           \* the execution of each registered callback
    thrown,         \* the Error that escaped componentTestSuite, if any
    args,           \* argument of resolveTestSuiteArgs
    resolved,       \* what resolveTestSuiteArgs returned, once it has
    mapArgs,        \* arguments of mapTestList: the list and the callback
    mapHeap,        \* the entries of the list given to mapTestList, as they are now
    mapped,         \* what mapTestList returned, once it has
    nameArg,        \* argument of a call of getComponentName on its own
    named,          \* what that call returned or threw, once it has
    globals,        \* the global bindings describe, it and test
    hostPhase,      \* "outside" a test of the host, or "inTest" (beforeEach has run)
    hostTestsRun,   \* tests of the host that have ended
    currentDescribeStack,  \* spyOnVitestCallers: the stack of describe calls
    spyCalls,       \* the SpyTestCall objects created, in the order of creation
    frames          \* the describe calls whose body is running, outermost first

inputVars == <<Component, options, testsArg, framework>>
regVars == <<pc, componentName, tests, idx, calls, thrown>>
execVars == <<registered, exec>>
argsVars == <<args, resolved>>
mapVars == <<mapArgs, mapHeap, mapped>>
nameVars == <<nameArg, named>>
spyVars == <<globals, hostPhase, hostTestsRun, currentDescribeStack, spyCalls, frames>>
vars == <<Component, options, testsArg, framework, pc, componentName, tests, idx,
          calls, registered, exec, thrown, args, resolved,
          mapArgs, mapHeap, mapped, nameArg, named,
          globals, hostPhase, hostTestsRun, currentDescribeStack, spyCalls, frames>>

\* The bindings of the globals before spyOnVitestCallers substitutes them.
OriginalGlobals ==
    [describe |-> "originalDescribe", it |-> "originalIt", test |-> "originalTest"]

\* No test of the host has begun under spyOnVitestCallers.
NoSpy ==
    /\ globals = OriginalGlobals
    /\ hostPhase = "outside"
    /\ hostTestsRun = 0
    /\ currentDescribeStack = <<>>
    /\ spyCalls = <<>>
    /\ frames = <<>>

\* One call of a framework primitive or of insideSuite.
Call(fn, name) == [fn |-> fn, name |-> name]

\* The block registered with describe whatever the options say.
SuiteFnOfDescribeOnly(opts) == "describe"

\* suiteFn = describe
SuiteFnOf(opts) == IF Len(opts.suiteFn) > 0 THEN opts.suiteFn[1] ELSE "describe"

\* The wrapper taken to be React.Fragment whatever the options say.
WrapperOfFragmentOnly(opts) == "React.Fragment"

\* Wrapper = React.Fragment
WrapperOf(opts) == IF Len(opts.Wrapper) > 0 THEN opts.Wrapper[1] ELSE "React.Fragment"

\* Placeholder element of a log entry that renders nothing.
NoElement == [type |-> "", children |-> <<>>]

\* One step of a callback: a hook called, or renderFunction called on an element.
\* raised: "" while the call has raised nothing, "threw" when it threw,
\* "rejected" when the promise it returned was found rejected.
Step(op, hook, element, raised) ==
    [op |-> op, hook |-> hook, element |-> element, raised |-> raised]

\* A registered callback that the framework has not invoked.
Idle == [pc |-> "idle", promise |-> "none", log |-> <<>>, error |-> ""]

\* the assertion failure of expect(...).not.toThrow()
NotToThrowFailure == "AssertionError: expected function to not throw an error"

\* `await hook?.()`: the call of an optional hook and the value then awaited.
\* outcome is what the hook does when called: it "returns" a value, "throws",
\* or returns a "pending" promise.
AwaitHook(e, op, hook, outcome, awaiting) ==
    IF hook = NoHook
    THEN [e EXCEPT !.pc = awaiting, !.promise = "fulfilled"]
    ELSE LET called == [e EXCEPT !.log = Append(@,
                 Step(op, hook, NoElement, IF outcome = "throws" THEN "threw" ELSE ""))] IN
         CASE outcome = "throws" ->
                [called EXCEPT !.pc = "failed", !.promise = "none", !.error = op]
           [] outcome = "returns" ->
                [called EXCEPT !.pc = awaiting, !.promise = "fulfilled"]
           [] OTHER ->
                [called EXCEPT !.pc = awaiting, !.promise = "pending"]

\* The callback up to its first suspension: await beforeRender?.()
BeginCallback(e, cb, outcome) ==
    AwaitHook(e, "beforeRender", cb.beforeRender, outcome, "awaitBefore")

\* The render step without expect(...).not.toThrow(): the Error of
\* renderFunction itself fails the test.
RenderStepWithoutExpect(e, cb, Wrapper, outcome) ==
    LET called == [e EXCEPT !.log = Append(@,
            Step("render", NoHook, WrappedElement(Wrapper, cb.ThisTestComponent),
                 IF outcome = "throws" THEN "threw" ELSE ""))] IN
    IF outcome = "throws"
    THEN [called EXCEPT !.pc = "failed", !.promise = "none", !.error = "renderFunction"]
    ELSE [called EXCEPT !.pc = "awaitAct", !.promise = "fulfilled"]

\* await act(() => expect(() => renderFunction(<Wrapper>{C}</Wrapper>)).not.toThrow())
RenderStep(e, cb, Wrapper, outcome) ==
    LET called == [e EXCEPT !.log = Append(@,
            Step("render", NoHook, WrappedElement(Wrapper, cb.ThisTestComponent),
                 IF outcome = "throws" THEN "threw" ELSE ""))] IN
    IF outcome = "throws"
    THEN [called EXCEPT !.pc = "failed", !.promise = "none", !.error = NotToThrowFailure]
    ELSE [called EXCEPT !.pc = "awaitAct", !.promise = "fulfilled"]

\* A continuation that goes on after a rejected promise as after a fulfilled one.
ResumeCallbackIgnoringRejection(e, cb, Wrapper, outcome) ==
    CASE e.pc = "awaitBefore" -> RenderStep(e, cb, Wrapper, outcome)
      [] e.pc = "awaitAct" ->
           AwaitHook(e, "afterRender", cb.afterRender, outcome, "awaitAfter")
      [] OTHER -> [e EXCEPT !.pc = "passed", !.promise = "none"]

\* A continuation that calls the hook again when its promise was rejected.
ResumeCallbackRetrying(e, cb, Wrapper, outcome) ==
    IF e.promise = "rejected"
    THEN [e EXCEPT !.promise = "pending",
                   !.log = Append(@, Step(IF e.pc = "awaitBefore" THEN "beforeRender"
                                          ELSE "afterRender",
                                          IF e.pc = "awaitBefore" THEN cb.beforeRender
                                          ELSE cb.afterRender,
                                          NoElement, ""))]
    ELSE CASE e.pc = "awaitBefore" -> RenderStep(e, cb, Wrapper, outcome)
           [] e.pc = "awaitAct" ->
                AwaitHook(e, "afterRender", cb.afterRender, outcome, "awaitAfter")
           [] OTHER -> [e EXCEPT !.pc = "passed", !.promise = "none"]

\* The callback from the settled promise it awaits to its next suspension or its end.
ResumeCallback(e, cb, Wrapper, outcome) ==
    IF e.promise = "rejected"
    THEN [e EXCEPT !.pc = "failed", !.promise = "none",
                   !.log[Len(e.log)].raised = "rejected",
                   !.error = IF e.pc = "awaitBefore" THEN "beforeRender" ELSE "afterRender"]
    ELSE CASE e.pc = "awaitBefore" -> RenderStep(e, cb, Wrapper, outcome)
           [] e.pc = "awaitAct" ->
                AwaitHook(e, "afterRender", cb.afterRender, outcome, "awaitAfter")
           [] OTHER -> [e EXCEPT !.pc = "passed", !.promise = "none"]

\* A continuation that runs without waiting for the promise.
MayResumeUnsettled(e) == e.pc \in {"awaitBefore", "awaitAct", "awaitAfter"}

\* What a called function may do: a hook returns a value, throws or returns a
\* pending promise; renderFunction returns or throws; a missing hook, and the
\* end of the callback, call nothing.
HookOutcomes(hook) ==
    IF hook = NoHook THEN {"returns"} ELSE {"returns", "throws", "pending"}

ResumeOutcomes(e, cb) ==
    IF e.promise = "rejected" THEN {"returns"}
    ELSE CASE e.pc = "awaitBefore" -> {"returns", "throws"}
           [] e.pc = "awaitAct" -> HookOutcomes(cb.afterRender)
           [] OTHER -> {"returns"}

\* The continuation of `await` runs once the awaited promise has settled.
MayResume(e) ==
    /\ e.pc \in {"awaitBefore", "awaitAct", "awaitAfter"}
    /\ e.promise \in {"fulfilled", "rejected"}

\* No frame of componentTestSuite is on the stack: the event loop may run.
StackEmpty == pc \in {"done", "threw"}

-----------------------------------------------------------------------------
(* componentTestSuite, statement by statement.                             *)

\* const componentName = getComponentName(Component); const tests = ...
ResolveSuiteName ==
    /\ pc = "called"
    /\ LET r == getComponentName(Component) IN
       IF r.threw
       THEN /\ pc' = "threw"
            /\ thrown' = <<r.message>>
            /\ UNCHANGED <<componentName, tests>>
       ELSE /\ pc' = "suite"
            /\ componentName' = r.value
            /\ tests' = EffectiveTests(testsArg)
            /\ UNCHANGED thrown
    /\ UNCHANGED <<idx, calls>>
    /\ UNCHANGED <<inputVars, execVars, argsVars, mapVars, nameVars, spyVars>>

\* suiteFn(componentName, () => {...}): describe runs the body inside the call,
\* as the describe of spyOnVitestCallers does
CallSuiteFn ==
    /\ pc = "suite"
    /\ calls' = Append(calls, Call(SuiteFnOf(options), componentName))
    /\ pc' = "body"
    /\ UNCHANGED <<componentName, tests, idx, thrown>>
    /\ UNCHANGED <<inputVars, execVars, argsVars, mapVars, nameVars, spyVars>>

\* The body of the block without the call of insideSuite.
CallInsideSuiteSkipped ==
    /\ pc = "body"
    /\ pc' = "loop"
    /\ idx' = 1
    /\ UNCHANGED <<componentName, tests, calls, thrown>>
    /\ UNCHANGED <<inputVars, execVars, argsVars, mapVars, nameVars, spyVars>>

\* insideSuite?.()
CallInsideSuite ==
    /\ pc = "body"
    /\ calls' = IF options.insideSuite # NoHook
                THEN Append(calls, Call("insideSuite", ""))
                ELSE calls
    /\ pc' = "loop"
    /\ idx' = 1
    /\ UNCHANGED <<componentName, tests, thrown>>
    /\ UNCHANGED <<inputVars, execVars, argsVars, mapVars, nameVars, spyVars>>

\* A closure over bindings shared by the iterations: every callback sees the
\* last entry of the list.
CallbackOfLastEntry(t, primary) ==
    [ThisTestComponent |-> ThisTestComponentOf(tests[Len(tests)], primary),
     beforeRender |-> tests[Len(tests)].beforeRender,
     afterRender |-> tests[Len(tests)].afterRender]

\* The closure test() receives for entry t.
CallbackOf(t, primary) ==
    [ThisTestComponent |-> ThisTestComponentOf(t, primary),
     beforeRender |-> t.beforeRender, afterRender |-> t.afterRender]

\* The name check without the comparison with componentName.
NameCheckNoComparison(t, primary, expected) ==
    LET r == getComponentName(ThisTestComponentOf(t, primary)) IN
    IF r.threw THEN <<r.message>> ELSE <<>>

\* The name check applied to the primary component instead of the entry's.
NameCheckOfPrimary(t, primary, expected) ==
    LET r == getComponentName(primary) IN
    IF r.threw THEN <<r.message>>
    ELSE IF r.value # expected THEN <<MismatchMessage(expected)>>
    ELSE <<>>

\* A name check that reports a component without a name as one of another type.
NameCheckUnnamedAsMismatch(t, primary, expected) ==
    LET name == ResolvedName(ThisTestComponentOf(t, primary)) IN
    IF name # expected THEN <<MismatchMessage(expected)>> ELSE <<>>

\* A name check that compares the elements themselves instead of their names.
NameCheckSameElement(t, primary, expected) ==
    LET r == getComponentName(ThisTestComponentOf(t, primary)) IN
    IF r.threw THEN <<r.message>>
    ELSE IF ThisTestComponentOf(t, primary) # primary THEN <<MismatchMessage(expected)>>
    ELSE <<>>

\* The name check of one loop iteration: the Error thrown, or none.
NameCheck(t, primary, expected) ==
    LET r == getComponentName(ThisTestComponentOf(t, primary)) IN
    IF r.threw THEN <<r.message>>
    ELSE IF r.value # expected THEN <<MismatchMessage(expected)>>
    ELSE <<>>

\* A loop iteration that withdraws what was registered when the name check fails.
RegisterTestRollingBack ==
    /\ pc = "loop"
    /\ idx <= Len(tests)
    /\ LET t == tests[idx]
           err == NameCheck(t, Component, componentName)
           cb == CallbackOf(t, Component) IN
       IF Len(err) > 0
       THEN /\ pc' = "threw"
            /\ thrown' = err
            /\ calls' = <<>>
            /\ registered' = <<>>
            /\ exec' = <<>>
            /\ UNCHANGED idx
       ELSE /\ calls' = Append(calls, Call("test", TitleOf(options.testTitle, t)))
            /\ registered' = Append(registered, cb)
            /\ \E outcome \in HookOutcomes(IF framework = "immediate"
                                           THEN cb.beforeRender ELSE NoHook) :
                 exec' = Append(exec, IF framework = "immediate"
                                      THEN BeginCallback(Idle, cb, outcome)
                                      ELSE Idle)
            /\ idx' = idx + 1
            /\ UNCHANGED <<pc, thrown>>
    /\ UNCHANGED <<componentName, tests>>
    /\ UNCHANGED <<inputVars, argsVars, mapVars, nameVars, spyVars>>

\* A loop iteration that, besides handing the callback to test(), calls it.
RegisterTestEager ==
    /\ pc = "loop"
    /\ idx <= Len(tests)
    /\ LET t == tests[idx]
           err == NameCheck(t, Component, componentName)
           cb == CallbackOf(t, Component) IN
       IF Len(err) > 0
       THEN /\ pc' = "threw"
            /\ thrown' = err
            /\ UNCHANGED <<idx, calls, registered, exec>>
       ELSE /\ calls' = Append(calls, Call("test", TitleOf(options.testTitle, t)))
            /\ registered' = Append(registered, cb)
            /\ \E outcome \in HookOutcomes(cb.beforeRender) :
                 exec' = Append(exec, BeginCallback(Idle, cb, outcome))
            /\ idx' = idx + 1
            /\ UNCHANGED <<pc, thrown>>
    /\ UNCHANGED <<componentName, tests>>
    /\ UNCHANGED <<inputVars, argsVars, mapVars, nameVars, spyVars>>

\* One iteration of the loop: the name check, then test(title, async () => {...}).
\* An "immediate" framework invokes the callback inside test().
RegisterTest ==
    /\ pc = "loop"
    /\ idx <= Len(tests)
    /\ LET t == tests[idx]
           err == NameCheck(t, Component, componentName)
           cb == CallbackOf(t, Component) IN
       IF Len(err) > 0
       THEN /\ pc' = "threw"
            /\ thrown' = err
            /\ UNCHANGED <<idx, calls, registered, exec>>
       ELSE /\ calls' = Append(calls, Call("test", TitleOf(options.testTitle, t)))
            /\ registered' = Append(registered, cb)
            /\ \E outcome \in HookOutcomes(IF framework = "immediate"
                                           THEN cb.beforeRender ELSE NoHook) :
                 exec' = Append(exec, IF framework = "immediate"
                                      THEN BeginCallback(Idle, cb, outcome)
                                      ELSE Idle)
            /\ idx' = idx + 1
            /\ UNCHANGED <<pc, thrown>>
    /\ UNCHANGED <<componentName, tests>>
    /\ UNCHANGED <<inputVars, argsVars, mapVars, nameVars, spyVars>>

\* The loop and the describe body end; suiteFn and componentTestSuite return.
ReturnFromSuite ==
    /\ pc = "loop"
    /\ idx > Len(tests)
    /\ pc' = "done"
    /\ UNCHANGED <<componentName, tests, idx, calls, thrown>>
    /\ UNCHANGED <<inputVars, execVars, argsVars, mapVars, nameVars, spyVars>>

-----------------------------------------------------------------------------
(* The host framework and the event loop, after componentTestSuite.        *)

\* A "deferred" framework invokes a registered callback once the suite is collected.
StartTest(i) ==
    /\ pc = "done"
    /\ framework = "deferred"
    /\ exec[i].pc = "idle"
    /\ \E outcome \in HookOutcomes(registered[i].beforeRender) :
         exec' = [exec EXCEPT ![i] = BeginCallback(@, registered[i], outcome)]
    /\ UNCHANGED <<inputVars, regVars, registered, argsVars, mapVars, nameVars, spyVars>>

\* The promise a hook returned settles.
SettleHook(i) ==
    /\ StackEmpty
    /\ exec[i].promise = "pending"
    /\ \E result \in {"fulfilled", "rejected"} :
         exec' = [exec EXCEPT ![i].promise = result]
    /\ UNCHANGED <<inputVars, regVars, registered, argsVars, mapVars, nameVars, spyVars>>

\* A run that stops at the first failed test: no callback continues once
\* another one has failed.
ResumeTestUnlessSiblingFailed(i) ==
    /\ StackEmpty
    /\ MayResume(exec[i])
    /\ \A k \in 1..Len(exec) : exec[k].pc # "failed"
    /\ \E outcome \in ResumeOutcomes(exec[i], registered[i]) :
         exec' = [exec EXCEPT ![i] =
                    ResumeCallback(@, registered[i], WrapperOf(options), outcome)]
    /\ UNCHANGED <<inputVars, regVars, registered, argsVars, mapVars, nameVars, spyVars>>

\* The callback continues after its await.
ResumeTest(i) ==
    /\ StackEmpty
    /\ MayResume(exec[i])
    /\ \E outcome \in ResumeOutcomes(exec[i], registered[i]) :
         exec' = [exec EXCEPT ![i] =
                    ResumeCallback(@, registered[i], WrapperOf(options), outcome)]
    /\ UNCHANGED <<inputVars, regVars, registered, argsVars, mapVars, nameVars, spyVars>>

-----------------------------------------------------------------------------
(* Inputs.                                                                 *)

BeforeHook(i) == 2 * i - 1
AfterHook(i) == 2 * i

\* The i-th entry of a list: each hook a function of its own.
MakeCase(shape, i) ==
    TestCase(shape.suffix,
             IF shape.before THEN BeforeHook(i) ELSE NoHook,
             IF shape.after THEN AfterHook(i) ELSE NoHook,
             shape.comp)

TestLists(shapes) ==
    UNION { { [i \in 1..n |-> MakeCase(s[i], i)] : s \in [1..n -> shapes] } : n \in 0..MaxTests }

OptionsSet(suiteFns, insideSuites, wrappers) ==
    [suiteFn : suiteFns, insideSuite : insideSuites, testTitle : {"renders"},
     Wrapper : wrappers]

InitWith(primaries, opts, lists, frameworks) ==
    /\ Component \in primaries
    /\ options \in opts
    /\ testsArg \in lists
    /\ framework \in frameworks
    /\ pc = "called"
    /\ componentName = ""
    /\ tests = <<>>
    /\ idx = 0
    /\ calls = <<>>
    /\ registered = <<>>
    /\ exec = <<>>
    /\ thrown = <<>>
    /\ args = <<>>
    /\ resolved = <<>>
    /\ mapArgs = <<>>
    /\ mapHeap = <<>>
    /\ mapped = <<>>
    /\ nameArg = <<>>
    /\ named = <<>>
    /\ NoSpy

\* The synchronous call of componentTestSuite, over components and titles:
\* entries about the primary component with every kind of suffix, and entries
\* with a suffix and a component of their own of every kind.
RegShapes ==
    [suffix : {<<>>, <<"">>, <<"a">>, <<"b">>}, comp : {<<>>},
     before : {TRUE}, after : {FALSE}]
    \cup [suffix : {<<"a">>},
          comp : {<<TestComponentProps2>>, <<MemoNamedComponent>>,
                  <<DifferentTestComponent>>, <<AnonymousComponent>>},
          before : {TRUE}, after : {FALSE}]

InitReg ==
    InitWith({TestComponent, ElementNamedComponent, AnonymousComponent},
             OptionsSet({<<>>, <<"describe.skip">>, <<"describe.only">>}, {NoHook, 1}, {<<>>}),
             TestLists(RegShapes),
             {"deferred", "immediate"})

NextReg ==
    \/ ResolveSuiteName
    \/ CallSuiteFn
    \/ CallInsideSuite
    \/ RegisterTest
    \/ ReturnFromSuite

SpecReg == InitReg /\ [][NextReg]_vars

\* The call and the executions of the registered callbacks, over hooks:
\* entries about the primary component with every choice of hooks, and entries
\* with a component of their own and both hooks.
ExecShapes ==
    [suffix : {<<>>}, comp : {<<>>}, before : BOOLEAN, after : BOOLEAN]
    \cup [suffix : {<<"a">>},
          comp : {<<TestComponentProps2>>, <<DifferentTestComponent>>},
          before : {TRUE}, after : {TRUE}]

Init ==
    InitWith({TestComponent},
             OptionsSet({<<>>}, {NoHook}, {<<>>, <<"TestWrapper">>}),
             TestLists(ExecShapes),
             {"deferred", "immediate"})

Next ==
    \/ ResolveSuiteName
    \/ CallSuiteFn
    \/ CallInsideSuite
    \/ RegisterTest
    \/ ReturnFromSuite
    \/ \E i \in 1..Len(exec) : StartTest(i)
    \/ \E i \in 1..Len(exec) : SettleHook(i)
    \/ \E i \in 1..Len(exec) : ResumeTest(i)

Spec == Init /\ [][Next]_vars

\* Synchronous code runs to its end, the promises the hooks returned settle,
\* and the event loop runs the continuation of every settled await.
Fairness ==
    /\ WF_vars(ResolveSuiteName \/ CallSuiteFn \/ CallInsideSuite
               \/ RegisterTest \/ ReturnFromSuite)
    /\ \A i \in 1..MaxTests :
         /\ WF_vars(i <= Len(exec) /\ SettleHook(i))
         /\ WF_vars(i <= Len(exec) /\ ResumeTest(i))

\* The executions to their end, over the hooks of the entries: every entry
\* is about the primary component and has no hook, afterRender only, or both.
LiveShapes ==
    [suffix : {<<>>}, comp : {<<>>}, before : {FALSE}, after : BOOLEAN]
    \cup [suffix : {<<>>}, comp : {<<>>}, before : {TRUE}, after : {TRUE}]

InitLive ==
    InitWith({TestComponent},
             OptionsSet({<<>>}, {NoHook}, {<<>>}),
             TestLists(LiveShapes),
             {"deferred", "immediate"})

SpecLive == InitLive /\ [][Next]_vars /\ Fairness

-----------------------------------------------------------------------------
(* resolveTestSuiteArgs.                                                   *)

\* An OverallOptions object without any key: {}
EmptyObject == [suiteFn |-> <<>>, insideSuite |-> NoHook, Wrapper |-> <<>>]

\* JavaScript values an argument can be: undefined, an object, an array.
Undefined == [kind |-> "undefined", object |-> EmptyObject, array |-> <<>>]
ObjectValue(o) == [kind |-> "object", object |-> o, array |-> <<>>]
ArrayValue(l) == [kind |-> "array", object |-> EmptyObject, array |-> l]

\* An element of the destructuring `const [first, second] = args`.
Destructured(a, i) == IF i <= Len(a) THEN a[i] ELSE Undefined

\* !v for undefined, objects and arrays
Falsy(v) == v.kind = "undefined"

\* second ?? []
OrEmptyList(v) == IF v.kind = "undefined" THEN ArrayValue(<<>>) ELSE v

\* resolveTestSuiteArgs returning `second` without `?? []`.
resolveTestSuiteArgsSecondAsIs(a) ==
    LET first == Destructured(a, 1)
        second == Destructured(a, 2) IN
    IF Falsy(first)
    THEN [overallOptions |-> ObjectValue(EmptyObject), tests |-> ArrayValue(<<>>)]
    ELSE IF first.kind = "array"
    THEN [overallOptions |-> ObjectValue(EmptyObject), tests |-> first]
    ELSE [overallOptions |-> first, tests |-> second]

resolveTestSuiteArgs(a) ==
    LET first == Destructured(a, 1)
        second == Destructured(a, 2) IN
    IF Falsy(first)
    THEN [overallOptions |-> ObjectValue(EmptyObject), tests |-> ArrayValue(<<>>)]
    ELSE IF first.kind = "array"
    THEN [overallOptions |-> ObjectValue(EmptyObject), tests |-> first]
    ELSE [overallOptions |-> first, tests |-> OrEmptyList(second)]

\* A caller applies resolveTestSuiteArgs to its rest arguments.
ResolveArgs ==
    /\ pc = "idle"
    /\ resolved = <<>>
    /\ resolved' = <<resolveTestSuiteArgs(args)>>
    /\ UNCHANGED <<inputVars, regVars, execVars, args, mapVars, nameVars, spyVars>>

\* The OverallOptions objects and test lists given to resolveTestSuiteArgs.
OverallOptionsSet ==
    [suiteFn : {<<>>, <<"describe.skip">>, <<"describe.only">>},
     insideSuite : {NoHook, 1}, Wrapper : {<<>>, <<"TestWrapper">>}]

ArgShapes ==
    [suffix : {<<"a">>}, comp : {<<>>, <<TestComponentProps2>>},
     before : {FALSE}, after : {FALSE}]

\* TestSuiteArgs: [], [tests?], [OverallOptions, tests?]
DeclaredArgs ==
    LET objects == { ObjectValue(o) : o \in OverallOptionsSet }
        lists == { ArrayValue(l) : l \in TestLists(ArgShapes) } IN
    {<<>>} \cup { <<v>> : v \in lists \cup objects \cup {Undefined} }
           \cup { <<o, v>> : o \in objects, v \in lists \cup {Undefined} }

InitArgs ==
    /\ Component = TestComponent
    /\ options \in OptionsSet({<<>>}, {NoHook}, {<<>>})
    /\ testsArg = <<>>
    /\ framework = "deferred"
    /\ pc = "idle"
    /\ componentName = ""
    /\ tests = <<>>
    /\ idx = 0
    /\ calls = <<>>
    /\ registered = <<>>
    /\ exec = <<>>
    /\ thrown = <<>>
    /\ args \in DeclaredArgs
    /\ resolved = <<>>
    /\ mapArgs = <<>>
    /\ mapHeap = <<>>
    /\ mapped = <<>>
    /\ nameArg = <<>>
    /\ named = <<>>
    /\ NoSpy

NextArgs == ResolveArgs

SpecArgs == InitArgs /\ [][NextArgs]_vars

-----------------------------------------------------------------------------
(* mapTestList.                                                            *)

\* No call of componentTestSuite or of resolveTestSuiteArgs is in progress.
NoSuiteCall ==
    /\ Component = TestComponent
    /\ options \in OptionsSet({<<>>}, {NoHook}, {<<>>})
    /\ testsArg = <<>>
    /\ framework = "deferred"
    /\ pc = "idle"
    /\ componentName = ""
    /\ tests = <<>>
    /\ idx = 0
    /\ calls = <<>>
    /\ registered = <<>>
    /\ exec = <<>>
    /\ thrown = <<>>
    /\ args = <<>>
    /\ resolved = <<>>

\* Entries of a custom test list: objects, from their keys to their values.
\* The value of a function is written as a string naming it.
MapEntries ==
    { [testTitleSuffix |-> "test 1", customProp |-> "value1"],
      [testTitleSuffix |-> "test 2", Component |-> "<TestComponent />",
       customProp |-> "value2"],
      [testTitleSuffix |-> "test", beforeRender |-> "beforeRender",
       afterRender |-> "own afterRender"],
      [checks |-> "checks"] }

\* t.key, `undefined` when the object has no such key
Field(t, key) == IF key \in DOMAIN t THEN t[key] ELSE "undefined"

\* The callbacks given to mapTestList, by name: what each returns for entry t.
\*   "nothing":  () => ({})
\*   "log":      (t) => ({ afterRender: () => console.log(t.customProp) })
\*   "checks":   (t) => ({ afterRender: t.checks })
\*   "retitle":  () => ({ testTitleSuffix: 'mapped', beforeRender: undefined })
MapCallbacks == {"nothing", "log", "checks", "retitle"}

CallbackResult(callback, t) ==
    CASE callback = "nothing" -> [k \in {} |-> ""]
      [] callback = "log" -> [afterRender |-> "log " \o Field(t, "customProp")]
      [] callback = "checks" -> [afterRender |-> Field(t, "checks")]
      [] OTHER -> [testTitleSuffix |-> "mapped", beforeRender |-> "undefined"]

\* { ...u, ...t }: the spread with the entry's own fields last.
SpreadOriginalLast(t, u) ==
    [k \in (DOMAIN t) \cup (DOMAIN u) |-> IF k \in DOMAIN t THEN t[k] ELSE u[k]]

\* { ...t, ...u }
Spread(t, u) ==
    [k \in (DOMAIN t) \cup (DOMAIN u) |-> IF k \in DOMAIN u THEN u[k] ELSE t[k]]

\* mapTestList that assigns the callback's fields to the entries themselves:
\* args?.map((t) => Object.assign(t, callback(t)))
mapTestListAssigning(list, callback) ==
    IF list = <<>>
    THEN [returned |-> <<>>, heap |-> <<>>, same |-> {}]
    ELSE LET merged == [i \in 1..Len(list[1]) |->
                          Spread(list[1][i], CallbackResult(callback, list[1][i]))] IN
         [returned |-> <<merged>>, heap |-> merged, same |-> 1..Len(list[1])]

\* mapTestList: args?.map((t) => ({ ...t, ...callback(t) }))
\*   returned: the list returned, or <<>> for undefined
\*   heap:     the entries of the list given, after the call
\*   same:     the positions at which the entry returned is the entry given
mapTestList(list, callback) ==
    IF list = <<>>
    THEN [returned |-> <<>>, heap |-> <<>>, same |-> {}]
    ELSE [returned |-> <<[i \in 1..Len(list[1]) |->
                            Spread(list[1][i], CallbackResult(callback, list[1][i]))]>>,
          heap |-> list[1],
          same |-> {}]

\* A caller applies mapTestList to a list, or to undefined, and a callback.
MapTestList ==
    /\ mapArgs # <<>>
    /\ mapped = <<>>
    /\ LET r == mapTestList(mapArgs[1].list, mapArgs[1].callback) IN
         /\ mapped' = <<[returned |-> r.returned, same |-> r.same]>>
         /\ mapHeap' = r.heap
    /\ UNCHANGED <<inputVars, regVars, execVars, argsVars, mapArgs, nameVars, spyVars>>

\* The lists given to mapTestList: undefined, or up to MaxTests entries.
MapLists ==
    {<<>>} \cup { <<l>> : l \in UNION { [1..n -> MapEntries] : n \in 0..MaxTests } }

InitMap ==
    /\ NoSuiteCall
    /\ mapArgs \in { <<a>> : a \in [list : MapLists, callback : MapCallbacks] }
    /\ mapHeap = IF mapArgs[1].list = <<>> THEN <<>> ELSE mapArgs[1].list[1]
    /\ mapped = <<>>
    /\ nameArg = <<>>
    /\ named = <<>>
    /\ NoSpy

NextMap == MapTestList

SpecMap == InitMap /\ [][NextMap]_vars

-----------------------------------------------------------------------------
(* getComponentName, called on its own.                                    *)

GetComponentName ==
    /\ nameArg # <<>>
    /\ named = <<>>
    /\ named' = <<getComponentName(nameArg[1])>>
    /\ UNCHANGED <<inputVars, regVars, execVars, argsVars, mapVars, nameArg, spyVars>>

\* Function component elements: the type's name ("" for an anonymous type),
\* the type's displayName and a displayName on the element, each of the
\* last two missing, empty or set.
NameArgs ==
    { Element(n, td, d, p) :
        n \in {"", "TestComponent", "A"},
        td \in {<<>>, <<"">>, <<"TestComponent">>, <<"B">>},
        d \in {<<>>, <<"">>, <<"TestComponent">>, <<"C">>},
        p \in {1, 2} }

InitName ==
    /\ NoSuiteCall
    /\ mapArgs = <<>>
    /\ mapHeap = <<>>
    /\ mapped = <<>>
    /\ nameArg \in { <<C>> : C \in NameArgs }
    /\ named = <<>>
    /\ NoSpy

NextName == GetComponentName

SpecName == InitName /\ [][NextName]_vars

-----------------------------------------------------------------------------
(* spyOnVitestCallers.                                                     *)

\* The bindings the beforeEach of spyOnVitestCallers assigns.
SpyGlobals == [describe |-> "spyDescribe", it |-> "runTest", test |-> "runTest"]

\* A SpyTestCall: { name, fn, children: [] } of a describe, { name, fn } of a test.
\* children holds positions in spyCalls.
SpyTestCall(name, kind) == [name |-> name, kind |-> kind, children |-> <<>>]

\* A sequence without its last element.
DropLast(seq) == SubSeq(seq, 1, Len(seq) - 1)

\* if (currentDescribeStack.length > 0) parent?.children?.push(call), then the
\* call itself is kept: the objects after a call named `name` was created.
Attached(name, kind) ==
    LET id == Len(spyCalls) + 1
        parent == currentDescribeStack[Len(currentDescribeStack)] IN
    Append(IF Len(currentDescribeStack) > 0
           THEN [spyCalls EXCEPT ![parent].children = Append(@, id)]
           ELSE spyCalls,
           SpyTestCall(name, kind))

\* The host begins a test: the beforeEach callback substitutes the globals.
BeforeEach ==
    /\ hostPhase = "outside"
    /\ hostTestsRun < MaxHostTests
    /\ globals' = SpyGlobals
    /\ hostPhase' = "inTest"
    /\ UNCHANGED <<hostTestsRun, currentDescribeStack, spyCalls, frames>>
    /\ UNCHANGED <<inputVars, regVars, execVars, argsVars, mapVars, nameVars>>

\* The host ends a test: the afterEach callback restores the globals.
AfterEach ==
    /\ hostPhase = "inTest"
    /\ frames = <<>>
    /\ globals' = OriginalGlobals
    /\ hostPhase' = "outside"
    /\ hostTestsRun' = hostTestsRun + 1
    /\ UNCHANGED <<currentDescribeStack, spyCalls, frames>>
    /\ UNCHANGED <<inputVars, regVars, execVars, argsVars, mapVars, nameVars>>

\* describe(name, fn) up to the call of fn: the call is attached to the top
\* of the stack, pushed, and its body begins.
SpyDescribe(name) ==
    /\ hostPhase = "inTest"
    /\ globals.describe = "spyDescribe"
    /\ Len(spyCalls) < MaxSpyCalls
    /\ spyCalls' = Attached(name, "describe")
    /\ currentDescribeStack' = Append(currentDescribeStack, Len(spyCalls) + 1)
    /\ frames' = Append(frames, Len(spyCalls) + 1)
    /\ UNCHANGED <<globals, hostPhase, hostTestsRun>>
    /\ UNCHANGED <<inputVars, regVars, execVars, argsVars, mapVars, nameVars>>

\* fn() of a describe returns: currentDescribeStack.pop(), and describe returns.
DescribeBodyReturns ==
    /\ frames # <<>>
    /\ currentDescribeStack' = DropLast(currentDescribeStack)
    /\ frames' = DropLast(frames)
    /\ UNCHANGED <<globals, hostPhase, hostTestsRun, spyCalls>>
    /\ UNCHANGED <<inputVars, regVars, execVars, argsVars, mapVars, nameVars>>

\* fn() of a describe throws: the Error leaves that describe before its pop
\* and reaches the caller, the body of the enclosing describe or the test of
\* the host.  A caller that does not catch it throws in its turn.
DescribeBodyThrows ==
    /\ frames # <<>>
    /\ frames' = DropLast(frames)
    /\ UNCHANGED <<globals, hostPhase, hostTestsRun, currentDescribeStack, spyCalls>>
    /\ UNCHANGED <<inputVars, regVars, execVars, argsVars, mapVars, nameVars>>

\* it(name, fn) or test(name, fn): the call is attached to the top of the
\* stack and fn is executed at once.  An Error fn throws leaves runTest and
\* reaches the caller, whose body is still running: it catches the Error, or
\* throws in its turn.
SpyRunTest(via, name, fnThrows) ==
    /\ hostPhase = "inTest"
    /\ globals[via] = "runTest"
    /\ Len(spyCalls) < MaxSpyCalls
    /\ fnThrows \in BOOLEAN
    /\ spyCalls' = Attached(name, "test")
    /\ UNCHANGED <<globals, hostPhase, hostTestsRun, currentDescribeStack, frames>>
    /\ UNCHANGED <<inputVars, regVars, execVars, argsVars, mapVars, nameVars>>

\* Names given to describe, it and test.
SpyNames == {"TestComponent", "renders"}

InitSpy ==
    /\ NoSuiteCall
    /\ mapArgs = <<>>
    /\ mapHeap = <<>>
    /\ mapped = <<>>
    /\ nameArg = <<>>
    /\ named = <<>>
    /\ NoSpy

NextSpy ==
    \/ BeforeEach
    \/ AfterEach
    \/ \E name \in SpyNames : SpyDescribe(name)
    \/ DescribeBodyReturns
    \/ DescribeBodyThrows
    \/ \E via \in {"it", "test"}, name \in SpyNames, fnThrows \in BOOLEAN :
         SpyRunTest(via, name, fnThrows)

SpecSpy == InitSpy /\ [][NextSpy]_vars

-----------------------------------------------------------------------------
(* Properties of the registration (SpecReg).                               *)

\* The name the Component Namer is specified to give: the type's name, else the
\* type's display name, else the element's display name; "" when there is none.
ExpectedName(C) ==
    IF C.type.name # "" THEN C.type.name
    ELSE IF C.type.displayName # <<>> /\ C.type.displayName # <<"">> THEN C.type.displayName[1]
    ELSE IF C.displayName # <<>> /\ C.displayName # <<"">> THEN C.displayName[1]
    ELSE ""

\* The component entry k of the supplied list is about.
SubjectOf(k) ==
    IF testsArg[k].Component # <<>> THEN testsArg[k].Component[1] ELSE Component

IsSuiteCall(c) == c.fn \in {"describe", "describe.skip", "describe.only"}
IsTestCall(c) == c.fn = "test"
IsInsideSuiteCall(c) == c.fn = "insideSuite"
SuiteCalls == SelectSeq(calls, IsSuiteCall)
TestCalls == SelectSeq(calls, IsTestCall)
InsideSuiteCalls == SelectSeq(calls, IsInsideSuiteCall)

\* The supplied entries all pass the name check.
PassNameCheck ==
    /\ ExpectedName(Component) # ""
    /\ \A k \in 1..Len(testsArg) : ExpectedName(SubjectOf(k)) = ExpectedName(Component)

AtLeastOne(n) == IF n > 1 THEN n ELSE 1

\* C1: when every supplied entry passes the name check the call does not throw,
\* and once it has returned exactly one grouping block is registered, first and
\* under the primary component's name, with exactly max(1, n) tests after it;
\* with no entry supplied the one test is titled testTitle.
C1_OneGroupMaxOneNTests ==
    PassNameCheck =>
        /\ pc # "threw"
        /\ Len(SuiteCalls) <= 1
        /\ Len(TestCalls) <= AtLeastOne(Len(testsArg))
        /\ pc = "done" =>
            /\ Len(SuiteCalls) = 1
            /\ IsSuiteCall(calls[1])
            /\ calls[1].name = ExpectedName(Component)
            /\ Len(TestCalls) = AtLeastOne(Len(testsArg))
            /\ Len(registered) = AtLeastOne(Len(testsArg))
            /\ Len(testsArg) = 0 => TestCalls[1].name = options.testTitle

C1_Witness ==
    /\ pc = "done"
    /\ Len(testsArg) = 2
    /\ testsArg[2].Component = <<MemoNamedComponent>>
    /\ SuiteCalls = <<Call("describe.only", "TestComponent")>>
    /\ Len(TestCalls) = 2

\* The title the specification gives entry t.
ExpectedTitle(baseTitle, t) ==
    IF t.testTitleSuffix = <<>> \/ t.testTitleSuffix = <<"">>
    THEN baseTitle
    ELSE baseTitle \o " - " \o t.testTitleSuffix[1]

\* C2: the j-th test registered is the one of the j-th supplied entry: it has
\* that entry's hooks and its title is testTitle alone when the suffix is absent
\* or empty, else testTitle, " - " and the suffix; suffixes "a" and "b" register
\* "renders - a" then "renders - b".
C2_TitlesInListOrder ==
    /\ Len(TestCalls) = Len(registered)
    /\ \A j \in 1..Len(TestCalls) : j <= Len(testsArg) =>
        /\ TestCalls[j].name = ExpectedTitle(options.testTitle, testsArg[j])
        /\ registered[j].beforeRender = testsArg[j].beforeRender
        /\ registered[j].afterRender = testsArg[j].afterRender
    /\ ( /\ pc = "done"
         /\ Len(testsArg) = 2
         /\ testsArg[1].testTitleSuffix = <<"a">>
         /\ testsArg[2].testTitleSuffix = <<"b">> )
       => ( /\ TestCalls[1].name = "renders - a"
            /\ TestCalls[2].name = "renders - b" )

C2_Witness ==
    /\ pc = "done"
    /\ Len(testsArg) = 2
    /\ testsArg[1].testTitleSuffix = <<"">>
    /\ testsArg[2].testTitleSuffix = <<"b">>
    /\ TestCalls = <<Call("test", "renders"), Call("test", "renders - b")>>

\* Entry k resolves to a name, and the name is not the primary component's.
Mismatches(k) ==
    /\ ExpectedName(Component) # ""
    /\ ExpectedName(SubjectOf(k)) # ""
    /\ ExpectedName(SubjectOf(k)) # ExpectedName(Component)

\* C3: an entry k whose component resolves to another name than the primary
\* component's is never registered, nor is any entry after it: the loop does not
\* pass k and the call does not return; when the loop reaches k the call throws
\* the mismatch Error, whose message names the primary component's name.
C3_MismatchThrows ==
    \A k \in 1..Len(testsArg) : Mismatches(k) =>
        /\ Len(TestCalls) < k
        /\ Len(registered) < k
        /\ pc # "done"
        /\ pc = "loop" => idx <= k
        /\ (pc = "threw" /\ idx = k) =>
             thrown = <<"all tests must be of same component type ("
                          \o ExpectedName(Component) \o ")">>

C3_Witness ==
    /\ pc = "threw"
    /\ idx = 2
    /\ Component = TestComponent
    /\ testsArg[2].Component = <<DifferentTestComponent>>
    /\ thrown = <<"all tests must be of same component type (TestComponent)">>
    /\ Len(TestCalls) = 1

\* C4: every registered test is about a component whose name is the title of
\* the grouping block.
C4_RegisteredSameName ==
    \A i \in 1..Len(registered) :
        /\ Len(SuiteCalls) = 1
        /\ ExpectedName(registered[i].ThisTestComponent) = SuiteCalls[1].name

C4_Witness ==
    /\ Len(registered) = 2
    /\ registered[1].ThisTestComponent = TestComponent
    /\ registered[2].ThisTestComponent = MemoNamedComponent
    /\ SuiteCalls[1].name = "TestComponent"

\* The primary component has no name anywhere.
PrimaryAnonymous ==
    /\ Component.type.name = ""
    /\ Component.type.displayName \in {<<>>, <<"">>}
    /\ Component.displayName \in {<<>>, <<"">>}

\* C5: with a primary component without a name, suiteFn, insideSuite and test
\* are never called, no callback is registered or invoked, and the call ends by
\* throwing the Error of getComponentName.
C5_AnonymousPrimaryThrowsFirst ==
    PrimaryAnonymous =>
        /\ calls = <<>>
        /\ registered = <<>>
        /\ exec = <<>>
        /\ pc \in {"called", "threw"}
        /\ pc = "threw" => thrown = <<NoNameMessage>>

C5_Witness ==
    /\ PrimaryAnonymous
    /\ pc = "threw"
    /\ thrown = <<"Component has no name. May be a React.MemoExoticComponent-- if so, set displayName on the component.">>
    /\ Len(testsArg) = 2
    /\ options.insideSuite # NoHook

\* C9: insideSuite, when supplied, is called once in a call that registers the
\* grouping block: not before suiteFn is called, then as the first thing of the
\* body, right after the call of suiteFn and before every call of test; it is
\* not called again.  Without insideSuite nothing of the kind is called.
C9_InsideSuiteOnceFirst ==
    /\ options.insideSuite = NoHook => Len(InsideSuiteCalls) = 0
    /\ options.insideSuite # NoHook =>
        /\ pc \in {"called", "suite", "body"} => Len(InsideSuiteCalls) = 0
        /\ pc \in {"loop", "done"} => Len(InsideSuiteCalls) = 1
        /\ (pc = "threw" /\ Len(SuiteCalls) = 1) => Len(InsideSuiteCalls) = 1
        /\ \A j \in 1..Len(calls) : IsInsideSuiteCall(calls[j]) =>
              /\ j = 2
              /\ IsSuiteCall(calls[1])
        /\ \A j \in 1..Len(calls) : IsTestCall(calls[j]) => j > 2

C9_Witness ==
    /\ pc = "done"
    /\ Len(calls) = 4
    /\ IsSuiteCall(calls[1])
    /\ IsInsideSuiteCall(calls[2])
    /\ IsTestCall(calls[3])
    /\ IsTestCall(calls[4])

-----------------------------------------------------------------------------
(* Properties of the execution of a registered callback (Spec).            *)

\* The execution of callback i before a step; a callback registered by the
\* step was not invoked before it.  The properties below constrain the steps
\* that change the execution of a callback.
Before(i) == IF i <= Len(exec) THEN exec[i] ELSE Idle

OpsOf(log) == [j \in 1..Len(log) |-> log[j].op]

\* The steps of a complete run of a callback with the hooks of cb.
FullPath(cb) ==
    (IF cb.beforeRender # NoHook THEN <<"beforeRender">> ELSE <<>>)
    \o <<"render">>
    \o (IF cb.afterRender # NoHook THEN <<"afterRender">> ELSE <<>>)

IsPrefix(p, q) == Len(p) <= Len(q) /\ \A j \in 1..Len(p) : p[j] = q[j]

\* The step made by callback i in this transition, if it made one.
Invoked(i, op) ==
    /\ Len(exec'[i].log) = Len(Before(i).log) + 1
    /\ exec'[i].log[Len(exec'[i].log)].op = op

C6_Step(i) ==
    LET old == Before(i)
        new == exec'[i]
        cb == registered'[i] IN
    \* one path: what was invoked stays, at most one step is added, and the
    \* steps invoked are the first ones of beforeRender, render, afterRender
    /\ IsPrefix(OpsOf(old.log), OpsOf(new.log))
    /\ Len(new.log) <= Len(old.log) + 1
    /\ IsPrefix(OpsOf(new.log), FullPath(cb))
    \* beforeRender is the first thing a callback does
    /\ Invoked(i, "beforeRender") => old.pc = "idle"
    \* render waits for the value of beforeRender to be fulfilled
    /\ Invoked(i, "render") => (old.pc = "awaitBefore" /\ old.promise = "fulfilled")
    \* afterRender waits for the render step to be complete
    /\ Invoked(i, "afterRender") => (old.pc = "awaitAct" /\ old.promise = "fulfilled")
    \* the callback ends well only after the value of afterRender is fulfilled
    /\ (new.pc = "passed" /\ old.pc # "passed") =>
          /\ old.pc = "awaitAfter"
          /\ old.promise = "fulfilled"
          /\ OpsOf(new.log) = FullPath(cb)
    \* a callback awaiting a pending promise does nothing but see it settle
    /\ old.promise = "pending" =>
          \/ new = old
          \/ new = [old EXCEPT !.promise = "fulfilled"]
          \/ new = [old EXCEPT !.promise = "rejected"]

\* C6: each execution of a callback is one pass along beforeRender, render,
\* afterRender, each invoked at most once: render is invoked only once the value
\* awaited from beforeRender is fulfilled, afterRender only once the render step
\* is complete, and the callback ends well only once the value awaited from
\* afterRender is fulfilled.
C6_SinglePath == [][\A i \in 1..Len(exec') : exec'[i] # Before(i) => C6_Step(i)]_vars

C6_Witness ==
    \E i \in 1..Len(exec) :
        /\ exec[i].pc = "passed"
        /\ OpsOf(exec[i].log) = <<"beforeRender", "render", "afterRender">>
        /\ exec[i].log[1].hook = registered[i].beforeRender
        /\ exec[i].log[3].hook = registered[i].afterRender

\* A failed callback does nothing more.
FailedIsFinal(i) == Before(i).pc = "failed" => exec'[i] = Before(i)

C7_State(e) ==
    \A j \in 1..Len(e.log) :
        (e.log[j].op = "beforeRender" /\ e.log[j].raised # "") =>
            /\ e.pc = "failed"
            /\ Len(e.log) = 1

C7_Step(i) ==
    LET old == Before(i)
        new == exec'[i] IN
    /\ FailedIsFinal(i)
    /\ (old.pc = "awaitBefore" /\ old.promise = "rejected" /\ new # old) =>
          /\ new.pc = "failed"
          /\ OpsOf(new.log) = OpsOf(old.log)

\* C7: when beforeRender throws, or the promise it returned is rejected, the
\* test fails with nothing invoked but beforeRender, and nothing is invoked
\* afterwards: neither renderFunction nor afterRender.
C7_BeforeRenderFailure ==
    /\ [](\A i \in 1..Len(exec) : C7_State(exec[i]))
    /\ [][\A i \in 1..Len(exec') : C7_Step(i)]_vars

C7_Witness ==
    \E i \in 1..Len(exec) :
        /\ exec[i].pc = "failed"
        /\ OpsOf(exec[i].log) = <<"beforeRender">>
        /\ exec[i].log[1].raised = "rejected"
        /\ registered[i].afterRender # NoHook

C8_State(e) ==
    \A j \in 1..Len(e.log) :
        (e.log[j].op = "render" /\ e.log[j].raised # "") =>
            /\ e.pc = "failed"
            /\ e.error = "AssertionError: expected function to not throw an error"
            /\ j = Len(e.log)

C8_Step(i) ==
    /\ FailedIsFinal(i)
    /\ (exec'[i].pc = "failed" /\ Before(i).pc # "failed") =>
          \A j \in 1..Len(exec') : j # i => exec'[j] = Before(j)

\* C8: when renderFunction throws, the test fails with the failure of the
\* not-to-throw assertion, render is the last step invoked (afterRender is not),
\* nothing is invoked afterwards, and the step changes no other callback.
C8_RenderFailure ==
    /\ [](\A i \in 1..Len(exec) : C8_State(exec[i]))
    /\ [][\A i \in 1..Len(exec') : C8_Step(i)]_vars

C8_Witness ==
    \E i, j \in 1..Len(exec) :
        /\ exec[i].pc = "failed"
        /\ registered[i].afterRender # NoHook
        /\ exec[i].log[Len(exec[i].log)].op = "render"
        /\ exec[i].log[Len(exec[i].log)].raised = "threw"
        /\ exec[j].pc = "passed"

-----------------------------------------------------------------------------
(* Properties of resolveTestSuiteArgs (SpecArgs).                          *)

NoOptions == [kind |-> "object",
              object |-> [suiteFn |-> <<>>, insideSuite |-> 0, Wrapper |-> <<>>],
              array |-> <<>>]
NoTests == [kind |-> "array",
            object |-> [suiteFn |-> <<>>, insideSuite |-> 0, Wrapper |-> <<>>],
            array |-> <<>>]

C10_Shape(a, r) ==
    /\ r.overallOptions.kind = "object"
    /\ r.tests.kind = "array"
    /\ Len(a) = 0 => r = [overallOptions |-> NoOptions, tests |-> NoTests]
    /\ (Len(a) = 1 /\ a[1].kind = "array") =>
          r = [overallOptions |-> NoOptions, tests |-> a[1]]
    /\ (Len(a) = 1 /\ a[1].kind = "object") =>
          r = [overallOptions |-> a[1], tests |-> NoTests]
    /\ (Len(a) = 2 /\ a[1].kind = "object" /\ a[2].kind = "array") =>
          r = [overallOptions |-> a[1], tests |-> a[2]]
    /\ (Len(a) = 2 /\ a[1].kind = "object" /\ a[2].kind = "undefined") =>
          r = [overallOptions |-> a[1], tests |-> NoTests]

\* C10: resolveTestSuiteArgs gives ({}, []) for no argument, ({}, list) for one
\* list, (arg, []) for one object, (options, list) for options and a list, and
\* (options, []) for options and undefined; neither part of the result is
\* undefined.
C10_ResolveArgs == resolved # <<>> => C10_Shape(args, resolved[1])

C10_Witness ==
    /\ Len(args) = 2
    /\ args[2].kind = "undefined"
    /\ args[1].object.suiteFn = <<"describe.skip">>
    /\ resolved # <<>>
    /\ resolved[1].tests.array = <<>>
    /\ resolved[1].overallOptions = args[1]

-----------------------------------------------------------------------------
(* Properties of mapTestList (SpecMap).                                    *)

\* Entry `out` is entry t with the fields of f laid over it.
MergedOver(out, t, f) ==
    /\ DOMAIN out = (DOMAIN t) \cup (DOMAIN f)
    /\ \A k \in DOMAIN f : out[k] = f[k]
    /\ \A k \in (DOMAIN t) \ (DOMAIN f) : out[k] = t[k]

\* C11: mapTestList returns undefined for undefined and [] for []; for a list
\* it returns a list of the same length whose i-th entry has the fields of the
\* i-th entry given and those the callback returns for it, the callback's
\* value on a key both have, the entry's own value on every other key of it.
C11_MapTestList ==
    mapped # <<>> =>
        LET given == mapArgs[1].list
            out == mapped[1].returned IN
        /\ given = <<>> => out = <<>>
        /\ given = << <<>> >> => out = << <<>> >>
        /\ given # <<>> =>
            /\ out # <<>>
            /\ Len(out[1]) = Len(given[1])
            /\ \A i \in 1..Len(given[1]) :
                 MergedOver(out[1][i], given[1][i],
                            CallbackResult(mapArgs[1].callback, given[1][i]))

C11_Witness ==
    /\ mapped # <<>>
    /\ mapArgs[1].callback = "retitle"
    /\ mapArgs[1].list =
         << << [testTitleSuffix |-> "test 1", customProp |-> "value1"],
               [testTitleSuffix |-> "test", beforeRender |-> "beforeRender",
                afterRender |-> "own afterRender"] >> >>
    /\ mapped[1].returned =
         << << [testTitleSuffix |-> "mapped", customProp |-> "value1",
                beforeRender |-> "undefined"],
               [testTitleSuffix |-> "mapped", beforeRender |-> "undefined",
                afterRender |-> "own afterRender"] >> >>

\* C20: mapTestList leaves the list it is given as it was: the same entries in
\* the same order with the same fields and values, also when the callback
\* returns a key an entry has; no entry returned is an entry given.
C20_MapTestListPure ==
    /\ mapArgs # <<>> =>
          mapHeap = IF mapArgs[1].list = <<>> THEN <<>> ELSE mapArgs[1].list[1]
    /\ mapped # <<>> => mapped[1].same = {}

C20_Witness ==
    /\ mapped # <<>>
    /\ mapArgs[1].callback = "retitle"
    /\ mapHeap = << [testTitleSuffix |-> "test 1", customProp |-> "value1"],
                    [testTitleSuffix |-> "test", beforeRender |-> "beforeRender",
                     afterRender |-> "own afterRender"] >>
    /\ mapped[1].returned # <<mapHeap>>
    /\ mapped[1].same = {}

-----------------------------------------------------------------------------
(* Properties of getComponentName (SpecName).                              *)

\* The three places a name is looked for, in the order of the lookup.
NameCandidates(C) == << <<C.type.name>>, C.type.displayName, C.displayName >>

NonEmptyName(opt) == opt # <<>> /\ opt # <<"">>

\* C13: getComponentName returns the first non-empty one of the type's name,
\* the type's displayName and the element's displayName, in that order; it
\* throws the no-name Error exactly when none of the three is non-empty, and
\* it never returns the empty string.
C13_FirstNonEmptyName ==
    named # <<>> =>
        LET found == SelectSeq(NameCandidates(nameArg[1]), NonEmptyName) IN
        /\ named[1].threw <=> found = <<>>
        /\ named[1].threw =>
             named[1].message =
               "Component has no name. May be a React.MemoExoticComponent-- if so, set displayName on the component."
        /\ ~named[1].threw =>
             /\ named[1].value = found[1][1]
             /\ named[1].value # ""

C13_Witness ==
    /\ named # <<>>
    /\ nameArg[1].type.name = ""
    /\ nameArg[1].type.displayName = <<"B">>
    /\ nameArg[1].displayName = <<"C">>
    /\ named[1] = [threw |-> FALSE, value |-> "B", message |-> ""]

-----------------------------------------------------------------------------
(* Properties of the render step and of the closures (Spec).               *)

\* The component the i-th registered test is about: the entry's own, else the
\* primary one; the default entry is about the primary one.
SubjectAt(i) == IF testsArg = <<>> THEN Component ELSE SubjectOf(i)

\* The render steps of callback i so far.
IsRender(s) == s.op = "render"
RendersOf(i) == SelectSeq(exec[i].log, IsRender)

\* C12: renderFunction is called on one element, whose only child is the
\* component of the callback's own entry; its type is the Wrapper of the
\* options when one is given, and React.Fragment, which adds nothing around
\* its child, when none is.
C12_RenderWrapped ==
    \A i \in 1..Len(exec) :
        \A j \in 1..Len(RendersOf(i)) :
            LET el == RendersOf(i)[j].element IN
            /\ el.children = <<SubjectAt(i)>>
            /\ options.Wrapper # <<>> => el.type = options.Wrapper[1]
            /\ options.Wrapper = <<>> => el.type = "React.Fragment"

C12_Witness ==
    /\ options.Wrapper = <<"TestWrapper">>
    /\ Len(exec) = 2
    /\ testsArg[2].Component = <<TestComponentProps2>>
    /\ Len(RendersOf(2)) = 1
    /\ RendersOf(2)[1].element =
         [type |-> "TestWrapper", children |-> <<TestComponentProps2>>]
    /\ RendersOf(2)[1].raised = ""

\* The hook `op` of the entry the i-th registered test is about (0 for none).
OwnHook(i, op) ==
    IF testsArg = <<>> THEN 0
    ELSE IF op = "beforeRender" THEN testsArg[i].beforeRender
    ELSE testsArg[i].afterRender

\* The hooks of the entries other than the i-th.
SiblingHooks(i) ==
    { testsArg[k].beforeRender : k \in (1..Len(testsArg)) \ {i} }
    \cup { testsArg[k].afterRender : k \in (1..Len(testsArg)) \ {i} }

\* C16: whatever the order in which the framework runs and resumes the
\* callbacks, every hook callback i has called is the beforeRender or the
\* afterRender of its own entry, never a hook of another entry, and what it
\* has rendered is the component of its own entry.
C16_OwnHooksAndComponent ==
    \A i \in 1..Len(exec) :
        \A j \in 1..Len(exec[i].log) :
            LET s == exec[i].log[j] IN
            IF s.op = "render"
            THEN s.element.children = <<SubjectAt(i)>>
            ELSE /\ s.hook # 0
                 /\ s.hook = OwnHook(i, s.op)
                 /\ s.hook \notin SiblingHooks(i)

\* Both callbacks have run to their end, each with the hooks and the
\* component of its own entry.
C16_Witness ==
    /\ Len(exec) = 2
    /\ exec[1].pc = "passed"
    /\ exec[2].pc = "passed"
    /\ testsArg[1].Component = <<>>
    /\ testsArg[2].Component = <<TestComponentProps2>>
    /\ OpsOf(exec[1].log) = <<"beforeRender", "render", "afterRender">>
    /\ OpsOf(exec[2].log) = <<"beforeRender", "render", "afterRender">>
    /\ exec[1].log[1].hook = testsArg[1].beforeRender
    /\ exec[2].log[3].hook = testsArg[2].afterRender
    /\ exec[1].log[2].element.children = <<Component>>
    /\ exec[2].log[2].element.children = <<TestComponentProps2>>

-----------------------------------------------------------------------------
(* Registration against execution (Spec).                                  *)

\* The callbacks the framework has invoked.
Started == { i \in 1..Len(exec) : exec[i].pc # "idle" }

\* The calls of renderFunction made so far, over all callbacks.
RenderCalls == { <<i, j>> \in (1..Len(exec)) \X (1..3) :
                   j <= Len(exec[i].log) /\ exec[i].log[j].op = "render" }

\* componentTestSuite is still on the stack.
Registering == pc \notin {"done", "threw"}

C14_State ==
    /\ \A i \in 1..Len(exec) : exec[i].pc = "idle" => exec[i].log = <<>>
    /\ (framework = "deferred" /\ Registering) =>
          \A i \in 1..Len(exec) : exec[i] = Idle
    /\ Cardinality(RenderCalls) <= Cardinality(Started)

C14_Step ==
    Registering =>
        /\ \A i \in 1..Len(exec) : exec'[i] = exec[i]
        /\ Len(exec') > Len(exec) =>
             /\ Len(exec') = Len(exec) + 1
             /\ Len(registered') = Len(exec')
             /\ framework = "deferred" => exec'[Len(exec')] = Idle

\* C14: componentTestSuite only hands callbacks to test(): while it runs, no
\* step of a callback already registered is taken, and with a framework that
\* runs tests after collection no hook and no renderFunction has been called
\* when it returns.  A callback has taken steps only if the framework has
\* invoked it, so there are never more renderFunction calls than callbacks
\* started.
C14_OnlyRegisters == []C14_State /\ [][C14_Step]_vars

\* After the call returned, the framework has run the first test through its
\* render step and has not started the second one.
C14_Witness ==
    /\ framework = "deferred"
    /\ pc = "done"
    /\ Len(exec) = 2
    /\ exec[1].pc = "awaitAct"
    /\ OpsOf(exec[1].log) = <<"beforeRender", "render">>
    /\ exec[2] = Idle
    /\ registered[2].beforeRender # 0
    /\ Cardinality(RenderCalls) = 1
    /\ Cardinality(Started) = 1

-----------------------------------------------------------------------------
(* Isolation of the test cases (Spec).                                     *)

\* Callback i has met a failure of its own: a hook or renderFunction it called
\* threw, or a promise it awaited was rejected.
OwnFailure(i) == \E j \in 1..Len(exec[i].log) : exec[i].log[j].raised # ""

SomeFailed == \E k \in 1..Len(exec) : exec[k].pc = "failed"

C17_State ==
    \A i \in 1..Len(exec) :
        /\ exec[i].pc = "failed" <=> OwnFailure(i)
        /\ exec[i].pc = "passed" => OpsOf(exec[i].log) = FullPath(registered[i])
        /\ (SomeFailed /\ StackEmpty /\ exec[i].pc \in {"awaitBefore", "awaitAct", "awaitAfter"}
              /\ exec[i].promise # "pending") => ENABLED ResumeTest(i)
        /\ (SomeFailed /\ exec[i].promise = "pending" /\ StackEmpty) => ENABLED SettleHook(i)
        /\ (SomeFailed /\ exec[i].pc = "idle" /\ pc = "done") => ENABLED StartTest(i)

C17_Step ==
    StackEmpty =>
        \A i, k \in 1..Len(exec) :
            (exec'[i] # exec[i] /\ exec'[k] # exec[k]) => i = k

\* C17: a hook or a render that fails in one test case fails that case only:
\* a step of one callback leaves every other callback as it was; a callback
\* has failed exactly when a step of its own raised, and has passed only after
\* its own full sequence of steps; and a callback that is waiting to start, to
\* have its promise settled or to continue can do so whether or not another
\* callback has failed.
C17_FailureIsolated == []C17_State /\ [][C17_Step]_vars

\* The first case failed in its beforeRender; the second ran all its steps
\* and passed.
C17_Witness ==
    /\ Len(exec) = 2
    /\ exec[1].pc = "failed"
    /\ OpsOf(exec[1].log) = <<"beforeRender">>
    /\ exec[1].log[1].raised = "threw"
    /\ exec[2].pc = "passed"
    /\ OpsOf(exec[2].log) = <<"beforeRender", "render", "afterRender">>
    /\ ~OwnFailure(2)

-----------------------------------------------------------------------------
(* Aborted registration, the grouping primitive, unnamed entries (SpecReg). *)

\* The call has thrown the mismatch Error.
ThrewMismatch ==
    /\ pc = "threw"
    /\ thrown = <<"all tests must be of same component type ("
                    \o ExpectedName(Component) \o ")">>

C15_State ==
    ThrewMismatch =>
        /\ idx \in 1..Len(testsArg)
        /\ Mismatches(idx)
        /\ Len(SuiteCalls) = 1
        /\ calls[1] = SuiteCalls[1]
        /\ Len(InsideSuiteCalls) = (IF options.insideSuite # 0 THEN 1 ELSE 0)
        /\ Len(TestCalls) = idx - 1
        /\ Len(registered) = idx - 1
        /\ \A j \in 1..(idx - 1) :
             TestCalls[j].name = ExpectedTitle(options.testTitle, testsArg[j])

C15_Step == IsPrefix(calls, calls') /\ IsPrefix(registered, registered')

\* C15: when the call throws the mismatch Error at entry k, nothing is taken
\* back: the grouping block was registered, insideSuite was called if given,
\* and the tests of entries 1..k-1 are registered, with their titles; no test
\* is registered for entry k or a later one.  No step of the call ever removes
\* a registration.
C15_NoRollback == []C15_State /\ [][C15_Step]_vars

C15_Witness ==
    /\ ThrewMismatch
    /\ idx = 2
    /\ Len(testsArg) = 2
    /\ options.insideSuite # 0
    /\ calls = <<Call(calls[1].fn, "TestComponent"), Call("insideSuite", ""),
                 Call("test", "renders - a")>>
    /\ Len(registered) = 1

\* The calls that follow the call of the grouping primitive, had the call run
\* to its end: insideSuite if given, then one test per entry.
CallsInsideBlock ==
    (IF options.insideSuite # 0 THEN <<Call("insideSuite", "")>> ELSE <<>>)
    \o (IF testsArg = <<>> THEN <<Call("test", options.testTitle)>>
        ELSE [j \in 1..Len(testsArg) |->
                Call("test", ExpectedTitle(options.testTitle, testsArg[j]))])

\* C18: suiteFn decides which primitive registers the grouping block and
\* nothing else: the block is registered once, first, through suiteFn when
\* given and through describe when not; the calls inside the block are those
\* the other arguments determine, and every test goes through the plain test
\* primitive.
C18_SuiteFnSelectsPrimitive ==
    /\ Len(SuiteCalls) <= 1
    /\ pc \in {"body", "loop", "done"} => Len(SuiteCalls) = 1
    /\ calls # <<>> =>
        /\ calls[1].fn = (IF options.suiteFn # <<>> THEN options.suiteFn[1] ELSE "describe")
        /\ calls[1].name = ExpectedName(Component)
        /\ IsPrefix(Tail(calls), CallsInsideBlock)
        /\ \A j \in 2..Len(calls) : calls[j].fn \in {"insideSuite", "test"}
    /\ pc = "done" => Tail(calls) = CallsInsideBlock

C18_Witness ==
    /\ pc = "done"
    /\ options.suiteFn = <<"describe.skip">>
    /\ Len(testsArg) = 2
    /\ calls = <<Call("describe.skip", "TestComponent"),
                 Call("test", "renders - a"), Call("test", "renders - b")>>

\* Entry k is about a component without a name, the primary one has a name.
Unnamed(k) ==
    /\ ExpectedName(Component) # ""
    /\ ExpectedName(SubjectOf(k)) = ""

\* C19: an entry k whose component has no name is never registered, nor is
\* any entry after it; when the loop reaches it the call throws, inside the
\* grouping block, the no-name Error of getComponentName and not the mismatch
\* Error.
C19_UnnamedEntryThrowsNoName ==
    \A k \in 1..Len(testsArg) : Unnamed(k) =>
        /\ Len(TestCalls) < k
        /\ Len(registered) < k
        /\ pc # "done"
        /\ pc = "loop" => idx <= k
        /\ (pc = "threw" /\ idx = k) =>
             /\ thrown = <<"Component has no name. May be a React.MemoExoticComponent-- if so, set displayName on the component.">>
             /\ ~ThrewMismatch
             /\ Len(SuiteCalls) = 1

C19_Witness ==
    /\ pc = "threw"
    /\ idx = 2
    /\ Component = TestComponent
    /\ testsArg[1].Component = <<MemoNamedComponent>>
    /\ testsArg[2].Component = <<AnonymousComponent>>
    /\ thrown = <<NoNameMessage>>
    /\ Len(TestCalls) = 1
    /\ Len(SuiteCalls) = 1

-----------------------------------------------------------------------------
(* What the same-component check compares (SpecReg).                       *)

\* Entries 1..k are all about components with the primary component's name.
SameNameUpTo(k) ==
    /\ ExpectedName(Component) # ""
    /\ \A j \in 1..k : ExpectedName(SubjectOf(j)) = ExpectedName(Component)

\* C21: the check compares names and nothing else.  An entry whose component
\* has the primary component's name is accepted whatever element it is (other
\* props, another type with that name): the call does not throw at it and its
\* test is registered with that component.  The mismatch Error is thrown only
\* at an entry whose name differs, and every entry is checked, the first one
\* too: no test is ever registered for an entry with another name.
C21_ComparesNamesOnly ==
    /\ \A k \in 1..Len(testsArg) : SameNameUpTo(k) =>
         /\ ~(pc = "threw" /\ idx = k)
         /\ pc \in {"loop", "done", "threw"} /\ idx > k =>
              /\ Len(registered) >= k
              /\ registered[k].ThisTestComponent = SubjectOf(k)
         /\ pc = "done" => Len(TestCalls) >= k
    /\ ThrewMismatch =>
         /\ idx \in 1..Len(testsArg)
         /\ ExpectedName(SubjectOf(idx)) # ExpectedName(Component)
    /\ \A k \in 1..Len(testsArg) : Mismatches(k) =>
         /\ Len(registered) < k
         /\ (pc = "threw" /\ idx = k) => ThrewMismatch
    /\ (Len(testsArg) > 0 /\ Mismatches(1)) =>
         /\ registered = <<>>
         /\ pc \notin {"done"}
         /\ pc = "loop" => idx = 1

\* Entries that are other elements than the primary one, with its name, are
\* both registered.
C21_Witness ==
    /\ pc = "done"
    /\ Component = TestComponent
    /\ Len(testsArg) = 2
    /\ testsArg[1].Component = <<TestComponentProps2>>
    /\ testsArg[2].Component = <<MemoNamedComponent>>
    /\ Len(TestCalls) = 2
    /\ registered[1].ThisTestComponent = TestComponentProps2
    /\ registered[2].ThisTestComponent = MemoNamedComponent

-----------------------------------------------------------------------------
(* Termination of the callbacks (SpecLive).                                *)

\* The framework has invoked the i-th registered callback.
HasStarted(i) == i <= Len(exec) /\ exec[i].pc # "idle"

\* The i-th registered callback has ended, as passed or as failed.
HasEnded(i) == i <= Len(exec) /\ exec[i].pc \in {"passed", "failed"}

\* How far a callback has come.
Rank(p) ==
    CASE p = "idle" -> 0
      [] p = "awaitBefore" -> 1
      [] p = "awaitAct" -> 2
      [] p = "awaitAfter" -> 3
      [] OTHER -> 4

\* No step occurs twice in the steps of one callback.
C22_State ==
    \A i \in 1..Len(exec) :
        \A j, k \in 1..Len(exec[i].log) :
            exec[i].log[j].op = exec[i].log[k].op => j = k

\* A callback only moves forward, and an ended callback stays as it is.
C22_Step ==
    \A i \in 1..Len(exec) :
        /\ Rank(exec'[i].pc) >= Rank(exec[i].pc)
        /\ IsPrefix(OpsOf(exec[i].log), OpsOf(exec'[i].log))
        /\ Len(exec'[i].log) <= Len(exec[i].log) + 1
        /\ exec[i].pc \in {"passed", "failed"} => exec'[i] = exec[i]

\* C22: when the promises returned by the hooks settle and renderFunction
\* returns or throws, every callback the framework has invoked ends, as
\* passed or as failed; a callback moves forward only and calls each of
\* beforeRender, renderFunction and afterRender at most once.
C22_CallbacksTerminate ==
    /\ \A i \in 1..MaxTests : HasStarted(i) ~> HasEnded(i)
    /\ []C22_State
    /\ [][C22_Step]_vars

\* A callback that waited for the promises of both its hooks has passed.
C22_Witness ==
    /\ Len(exec) = 2
    /\ exec[2].pc = "passed"
    /\ OpsOf(exec[2].log) = <<"beforeRender", "render", "afterRender">>
    /\ exec[1].pc = "failed"
    /\ exec[1].log[Len(exec[1].log)].raised = "rejected"

-----------------------------------------------------------------------------
(* Properties of spyOnVitestCallers (SpecSpy).                             *)

\* The innermost describe call whose body is running.
InnermostOpen == frames[Len(frames)]

\* This step creates the call `id`, and the only list of children that
\* changes is the one of `parent`, which gets `id` at its end.
RecordedAsChildOf(id, parent) ==
    /\ Len(spyCalls') = id
    /\ spyCalls'[parent].children = Append(spyCalls[parent].children, id)
    /\ \A k \in (1..Len(spyCalls)) \ {parent} :
         spyCalls'[k].children = spyCalls[k].children

\* This step is a call of describe, it or test.
Registers == Len(spyCalls') = Len(spyCalls) + 1

C23_Step ==
    /\ hostPhase' = "inTest" =>
         globals' = [describe |-> "spyDescribe", it |-> "runTest", test |-> "runTest"]
    /\ hostPhase' = "outside" =>
         globals' = [describe |-> "originalDescribe", it |-> "originalIt",
                     test |-> "originalTest"]
    /\ (Registers /\ spyCalls'[Len(spyCalls')].kind = "describe") =>
         /\ currentDescribeStack' = Append(currentDescribeStack, Len(spyCalls'))
         /\ frames' = Append(frames, Len(spyCalls'))
    /\ (Registers /\ frames # <<>>) =>
         RecordedAsChildOf(Len(spyCalls'), InnermostOpen)
    /\ DescribeBodyReturns =>
         /\ currentDescribeStack[Len(currentDescribeStack)] = InnermostOpen
         /\ Len(frames) = 1 => currentDescribeStack' = <<>>

\* C23: a test of the host runs with describe, it and test substituted, and
\* after it the three globals are the original ones again.  A substituted
\* describe pushes its call, runs its body and pops its call; a describe, it
\* or test called inside a body is recorded as the last child of the
\* innermost describe whose body is running, and of no other call; when the
\* outermost describe returns the stack is empty.
C23_SpyStackDiscipline == [][C23_Step]_vars

====
